---- MODULE Spec2Model ----
(***************************************************************************)
(* The cleaning pipeline (data_processing.process_data) and the feature    *)
(* transformation pipeline (data_transformation.transform_data) of the     *)
(* repository, as a state machine over pandas-like tables.                 *)
(*                                                                         *)
(* A table is a record                                                     *)
(*    [cols  : sequence of column names (the column order of the frame),   *)
(*     dtype : column name -> "object" | "float64" | "int64" | ...,        *)
(*     rows  : sequence of [idx : index label, c : column name -> cell]]   *)
(* A cell is a tagged tuple: NaN (also NaT), Str(s), Num(n), Date(d) with   *)
(* d a day number, Z(...) for a standardized number.  Numbers are          *)
(* integers; every comparison the code makes in floating point is made     *)
(* here on the same quantities cross-multiplied.  The verbose diagnostics  *)
(* (prints that do not affect the returned table) are not modelled.        *)
(***************************************************************************)
EXTENDS Integers, Sequences, FiniteSets, TLC

VARIABLES
    call,          \* "process_data" or "transform_data": the entry point invoked
    dataset_path,  \* process_data's argument, as its '/'-separated components
    source,        \* the source identifier (derived from the path, or the argument)
    input,         \* the table as loaded by read_csv / as passed by the caller
    now,           \* the day number datetime.now() yields in this run
    df,            \* the local variable df of the running entry point
    prev,          \* the table the step that ran last was called with
    pc,            \* the next step of the running entry point
    ret,           \* "pending", or how the call ended: "df", "None", "raise"
    exc,           \* the exception raised ("" when none)
    stdout         \* the unconditional prints, in order

vars == <<call, dataset_path, source, input, now, df, prev, pc, ret, exc, stdout>>

(***************************************************************************)
(* Cells                                                                   *)
(***************************************************************************)
NaN == <<"nan">>
Str(s) == <<"str", s>>
Num(n) == <<"num", n>>
Date(d) == <<"date", d>>

IsNa(cell) == cell = NaN
IsNum(cell) == cell[1] = "num"

(***************************************************************************)
(* Tables                                                                  *)
(***************************************************************************)
Range(s) == {s[i] : i \in DOMAIN s}

ColSet(t) == Range(t.cols)

HasCols(t, cs) == cs \subseteq ColSet(t)

\* df[col] as the sequence of its cells, in row order.
Column(t, col) == [i \in DOMAIN t.rows |-> t.rows[i].c[col]]

\* df[mask]: the rows for which keep holds, order and index labels preserved.
FilterRows(t, keep(_)) == [t EXCEPT !.rows = SelectSeq(t.rows, keep)]

\* df.drop(cols, axis=1) / df.loc[:, mask]: the listed columns removed.
DropCols(t, cs) ==
    [cols  |-> SelectSeq(t.cols, LAMBDA c : c \notin cs),
     dtype |-> [c \in ColSet(t) \ cs |-> t.dtype[c]],
     rows  |-> [i \in DOMAIN t.rows |->
                  [idx |-> t.rows[i].idx,
                   c   |-> [c \in ColSet(t) \ cs |-> t.rows[i].c[c]]]]]

\* df.loc[mask, col] = value.
SetWhere(t, col, mask(_), value) ==
    [t EXCEPT !.rows = [i \in DOMAIN t.rows |->
        IF mask(t.rows[i]) THEN [t.rows[i] EXCEPT !.c[col] = value]
        ELSE t.rows[i]]]

\* df[col].isna().sum()
NMissing(t, col) == Cardinality({i \in DOMAIN t.rows : IsNa(t.rows[i].c[col])})

\* The outcome of a step: the table it returns, or the exception it raises.
Ok(t) == [exc |-> "", none |-> FALSE, df |-> t]
Raise(e, t) == [exc |-> e, none |-> FALSE, df |-> t]
ReturnsNone(t) == [exc |-> "", none |-> TRUE, df |-> t]

(***************************************************************************)
(* data_processing.remove_duplicates                                       *)
(***************************************************************************)
FrenchColumn == "Groups With Access Code (French)"

\* df.duplicated(): a row is flagged when an earlier row has the same cells
\* in every column (the index is not compared; NaN cells compare equal).
\* The index is the RangeIndex of read_csv, so "earlier" is "smaller label".
Duplicated(t, r) == \E i \in DOMAIN t.rows : t.rows[i].idx < r.idx /\ t.rows[i].c = r.c

remove_duplicates(t) ==
    LET d == FilterRows(t, LAMBDA r : ~Duplicated(t, r))
    IN  IF FrenchColumn \in ColSet(d) THEN DropCols(d, {FrenchColumn}) ELSE d

(***************************************************************************)
(* data_processing.deal_with_missing_data                                  *)
(***************************************************************************)
DropColumnPerc == 50
DropRowPerc == 2

\* perc_missing_data[col] < limit, for perc = n_missing / n_rows * 100 in
\* floating point.  With no rows the quotient is 0/0 = NaN and every
\* comparison with it is False.
PercBelow(m, n, limit) == n > 0 /\ m * 100 < limit * n

\* Mutant of SparseColumns: a column at exactly 50% is kept.
SparseColumnsAbove(t) ==
    {c \in ColSet(t) : ~(Len(t.rows) > 0 /\ NMissing(t, c) * 100 <= DropColumnPerc * Len(t.rows))}

\* The columns df.loc[:, perc_missing_data < 50] leaves out.
SparseColumns(t) ==
    {c \in ColSet(t) : ~PercBelow(NMissing(t, c), Len(t.rows), DropColumnPerc)}

\* perc_missing_data[perc_missing_data < 2].index, among the kept columns.
FewMissingColumns(t) ==
    {c \in ColSet(t) \ SparseColumns(t) :
        PercBelow(NMissing(t, c), Len(t.rows), DropRowPerc)}

ev_cols_with_missing_data == <<"EV Network", "EV Network Web", "EV Connector Types">>

\* Mutant of NotElec: the fuel type is not consulted.
AnyFuel(r) == TRUE

\* df['Fuel Type Code'] != 'ELEC' (True for a missing fuel type).
NotElec(r) == r.c["Fuel Type Code"] # Str("ELEC")

\* Lines 64-65 (and 68-72) for one column: fill where the fuel is not ELEC,
\* then drop the rows still missing.
FillThenDrop(t, col, value) ==
    LET filled == SetWhere(t, col, LAMBDA r : IsNa(r.c[col]) /\ NotElec(r), value)
    IN  FilterRows(filled, LAMBDA r : ~IsNa(r.c[col]))

RECURSIVE FillEvColumns(_, _)
FillEvColumns(t, colseq) ==
    IF colseq = <<>> THEN Ok(t)
    ELSE IF ~HasCols(t, {Head(colseq), "Fuel Type Code"}) THEN Raise("KeyError", t)
    ELSE FillEvColumns(FillThenDrop(t, Head(colseq), Str("Not Applicable")), Tail(colseq))

deal_with_missing_data(t, src) ==
    LET few     == FewMissingColumns(t)
        kept    == DropCols(t, SparseColumns(t))
        dropped == FilterRows(kept, LAMBDA r : \A c \in few : ~IsNa(r.c[c]))
    IN  IF src = "dep_energy" THEN
            LET ev == FillEvColumns(dropped, ev_cols_with_missing_data)
            IN  IF ev.exc # "" THEN ev
                ELSE IF ~HasCols(ev.df, {"EV Level2 EVSE Num", "Fuel Type Code"})
                     THEN Raise("KeyError", ev.df)
                ELSE Ok(FillThenDrop(ev.df, "EV Level2 EVSE Num", Num(0)))
        ELSE IF src = "epa" THEN
            IF ~HasCols(dropped, {"drive"}) THEN Raise("KeyError", dropped)
            ELSE Ok(FilterRows(dropped, LAMBDA r : ~IsNa(r.c["drive"])))
        ELSE Ok(dropped)

(***************************************************************************)
(* data_processing.fix_data_types                                          *)
(***************************************************************************)
\* The date texts of the model and what pandas makes of them.
\* IsoDates: the texts matching format='%Y-%m-%d', with their day number.
\* LooseDates: the texts pd.to_datetime parses without a format.
IsoDates == [s \in {"2021-03-04", "2022-07-01"} |->
                IF s = "2021-03-04" THEN 18690 ELSE 19174]

LooseDates == [s \in DOMAIN IsoDates \cup {"03/04/2021", "Tue Jan 01 00:00:00  2013"} |->
                IF s \in DOMAIN IsoDates THEN IsoDates[s]
                ELSE IF s = "03/04/2021" THEN 18690 ELSE 15706]

\* Series.str.replace('EST|EDT', '', regex=True) on the texts of the model.
StripTz(cell) ==
    IF cell = Str("Tue Jan 01 00:00:00 EST 2013") THEN Str("Tue Jan 01 00:00:00  2013")
    ELSE IF cell = Str("Tue Jan 01 00:00:00 EDT 2013") THEN Str("Tue Jan 01 00:00:00  2013")
    ELSE cell

Parses(cell, lexicon) == IsNa(cell) \/ (cell[1] = "str" /\ cell[2] \in DOMAIN lexicon)

ToDate(cell, lexicon) ==
    IF cell[1] = "str" /\ cell[2] \in DOMAIN lexicon THEN Date(lexicon[cell[2]]) ELSE NaN

\* df[col] = pd.to_datetime(df[col], ...) once every cell is known to parse
\* (or errors='coerce' turns the others into NaT).
ToDatetime(t, col, lexicon, strip) ==
    [t EXCEPT !.dtype[col] = "datetime64",
              !.rows = [i \in DOMAIN t.rows |->
                  [t.rows[i] EXCEPT !.c[col] =
                      ToDate(IF strip THEN StripTz(@) ELSE @, lexicon)]]]

AllParse(t, col, lexicon, strip) ==
    \A i \in DOMAIN t.rows :
        Parses(IF strip THEN StripTz(t.rows[i].c[col]) ELSE t.rows[i].c[col], lexicon)

fix_data_types(t, src) ==
    IF src = "dep_energy" THEN
        IF ~HasCols(t, {"Date Last Confirmed"}) THEN Raise("KeyError", t)
        ELSE IF ~AllParse(t, "Date Last Confirmed", IsoDates, FALSE) THEN Raise("ValueError", t)
        ELSE IF ~HasCols(t, {"Open Date"}) THEN Raise("KeyError", t)
        ELSE IF ~HasCols(t, {"Updated At"}) THEN Raise("KeyError", t)
        ELSE IF ~AllParse(t, "Updated At", LooseDates, FALSE) THEN Raise("ValueError", t)
        ELSE LET t1 == ToDatetime(t, "Date Last Confirmed", IsoDates, FALSE)
                 t2 == ToDatetime(t1, "Open Date", IsoDates, FALSE)
                 t3 == ToDatetime(t2, "Updated At", LooseDates, FALSE)
             IN  Ok(FilterRows(t3, LAMBDA r : ~IsNa(r.c["Open Date"])))
    ELSE IF src = "epa" THEN
        IF ~HasCols(t, {"createdOn"}) THEN Raise("KeyError", t)
        ELSE IF ~AllParse(t, "createdOn", LooseDates, TRUE) THEN Raise("ValueError", t)
        ELSE IF ~HasCols(t, {"modifiedOn"}) THEN Raise("KeyError", t)
        ELSE IF ~AllParse(t, "modifiedOn", LooseDates, TRUE) THEN Raise("ValueError", t)
        ELSE Ok(ToDatetime(ToDatetime(t, "createdOn", LooseDates, TRUE),
                           "modifiedOn", LooseDates, TRUE))
    ELSE Ok(t)

(***************************************************************************)
(* data_processing.remove_unnecessary_columns, fix_typos                   *)
(***************************************************************************)
UnnecessaryColumns(src) ==
    IF src = "dep_energy" THEN {"Groups With Access Code"}
    ELSE IF src = "epa" THEN {"charge120", "range", "rangeCity", "rangeHwy"}
    ELSE {}

remove_unnecessary_columns(t, src) ==
    IF ~HasCols(t, UnnecessaryColumns(src)) THEN Raise("KeyError", t)
    ELSE Ok(DropCols(t, UnnecessaryColumns(src)))

CanadianStates == {Str("BC"), Str("ON"), Str("QC")}

fix_typos(t) ==
    IF ~HasCols(t, {"State", "Country"}) THEN Raise("KeyError", t)
    ELSE Ok(SetWhere(t, "Country", LAMBDA r : r.c["State"] \in CanadianStates, Str("CA")))

(***************************************************************************)
(* data_processing.remove_outliers                                         *)
(***************************************************************************)
RECURSIVE SeqSum(_)
SeqSum(s) == IF s = <<>> THEN 0 ELSE Head(s) + SeqSum(Tail(s))

RECURSIVE Insert(_, _)
Insert(x, s) ==
    IF s = <<>> THEN <<x>>
    ELSE IF x <= Head(s) THEN <<x>> \o s
    ELSE <<Head(s)>> \o Insert(x, Tail(s))

RECURSIVE Sort(_)
Sort(s) == IF s = <<>> THEN <<>> ELSE Insert(Head(s), Sort(Tail(s)))

\* The numbers of a column, missing cells skipped (pandas' skipna).
Values(t, col) ==
    LET present == SelectSeq(t.rows, LAMBDA r : IsNum(r.c[col]))
    IN  [i \in DOMAIN present |-> present[i].c[col][2]]

Squares(v) == [i \in DOMAIN v |-> v[i] * v[i]]

\* n * (n - 1) * variance (ddof = 1) of the values v: n*sum(x^2) - sum(x)^2.
ScaledVar(v) == Len(v) * SeqSum(Squares(v)) - SeqSum(v) * SeqSum(v)

\* df[col].std() is NaN with fewer than two values.
StdDefined(v) == Len(v) >= 2

\* norm_col = (df[col] - mean) / std holds a NaN when a cell is missing, when
\* std is NaN, or when std is 0 (0/0 in every row).
NormHasNaN(t, col) ==
    \/ NMissing(t, col) > 0
    \/ ~StdDefined(Values(t, col))
    \/ ScaledVar(Values(t, col)) = 0

\* x < mean - 3*std  or  x > mean + 3*std, i.e. |x - mean| > 3*std, squared
\* and multiplied out over the sums of the column.
ZOutlier(x, v) ==
    LET n == Len(v)
        d == n * x - SeqSum(v)
    IN  d * d * (n - 1) > 9 * n * ScaledVar(v)

\* 4 * df[col].quantile(k/4), with pandas' linear interpolation between the
\* two neighbouring order statistics.
Quantile4(sorted, k) ==
    LET h   == (Len(sorted) - 1) * k
        i   == (h \div 4) + 1
        rem == h % 4
    IN  IF rem = 0 THEN 4 * sorted[i]
        ELSE 4 * sorted[i] + rem * (sorted[i + 1] - sorted[i])

\* x < q1 - 1.5*iqr  or  x > q3 + 1.5*iqr, multiplied by 8.
IqrOutlier(x, v) ==
    LET s    == Sort(v)
        q1   == Quantile4(s, 1)
        q3   == Quantile4(s, 3)
        iqr  == q3 - q1
    IN  8 * x < 2 * q1 - 3 * iqr  \/  8 * x > 2 * q3 + 3 * iqr

OutlierFlag(t, col, normal, r) ==
    /\ IsNum(r.c[col])
    /\ IF normal THEN ZOutlier(r.c[col][2], Values(t, col))
       ELSE IqrOutlier(r.c[col][2], Values(t, col))

FloatColumns(t) == SelectSeq(t.cols, LAMBDA c : t.dtype[c] = "float64")

\* The verdicts norm_test_results.pvalue > .05 can have.  scipy.stats.kstest
\* is outside the repository: its p-value is NaN (never > .05) when norm_col
\* holds a NaN, and is otherwise left open here.
KsVerdicts(t, col) == IF NormHasNaN(t, col) THEN {FALSE} ELSE BOOLEAN

\* One pass of the loop body (lines 146-163) for column col.
FilterOutliers(t, col, normal) == FilterRows(t, LAMBDA r : ~OutlierFlag(t, col, normal, r))

\* The loop returns inside its first iteration; with no float column the
\* body never runs and the function falls off its end (returns None).
remove_outliers(t, normal) ==
    IF FloatColumns(t) = <<>> THEN ReturnsNone(t)
    ELSE IF t.rows = <<>> THEN Raise("ValueError", t)
    ELSE Ok(FilterOutliers(t, Head(FloatColumns(t)), normal))

(***************************************************************************)
(* Input tables                                                            *)
(***************************************************************************)
\* Bounds of the model: a table is BigFill, or 0..2, complete rows followed
\* by at most MaxSpecial rows that each differ from a complete row in the
\* cells a patch names; a transformer input has at most MaxRows rows.
BigFill == 50
MaxSpecial == 2

FillCounts == {0, 1, 2, BigFill}

A ++ B == [x \in DOMAIN A \cup DOMAIN B |-> IF x \in DOMAIN A THEN A[x] ELSE B[x]]

\* Columns whose numbers are written with a decimal point in the file.
DecimalColumns == {"barrels08", "displ", "Latitude", "Longitude"}

\* The dtype pd.read_csv infers for a column from its cells.
InferDtype(col, cells) ==
    IF \A i \in DOMAIN cells : IsNa(cells[i]) THEN "float64"
    ELSE IF \E i \in DOMAIN cells : cells[i][1] = "str" THEN "object"
    ELSE IF col \in DecimalColumns \/ \E i \in DOMAIN cells : IsNa(cells[i]) THEN "float64"
    ELSE "int64"

\* pd.read_csv: rows labelled 0, 1, 2, ... (a RangeIndex), dtypes inferred.
ReadCsv(cols, cellrows) ==
    [cols  |-> cols,
     dtype |-> [c \in Range(cols) |->
                  InferDtype(c, [i \in DOMAIN cellrows |-> cellrows[i][c]])],
     rows  |-> [i \in DOMAIN cellrows |-> [idx |-> i - 1, c |-> cellrows[i]]]]

\* fill complete rows (numbered by idcol) followed by the patched rows.
CellRows(base, idcol, fill, patches) ==
    [i \in 1 .. fill + Len(patches) |->
        IF i <= fill THEN (idcol :> Num(i)) ++ base
        ELSE patches[i - fill] ++ (idcol :> Num(i)) ++ base]

\* The sequences of at most n patches of the list P, in the order of P.
PatchSeqs(P, n) ==
    UNION {{[i \in 1 .. k |-> P[s[i]]] :
              s \in {s \in [1 .. k -> DOMAIN P] : \A i \in 1 .. k - 1 : s[i] <= s[i + 1]}} :
           k \in 0 .. n}

\* ---- Department of Energy: alt_fuel_stations.csv
DepEnergyColumns ==
    <<"ID", "Fuel Type Code", "Station Phone", "Groups With Access Code",
      "Date Last Confirmed", "Open Date", "Updated At", "State", "Country",
      "EV Level2 EVSE Num", "EV Network", "EV Network Web", "EV Connector Types",
      "Groups With Access Code (French)">>

DepEnergyRow ==
    [c \in Range(DepEnergyColumns) |->
        CASE c = "ID" -> Num(0)
          [] c = "Fuel Type Code" -> Str("ELEC")
          [] c = "Station Phone" -> Str("555-0100")
          [] c = "Groups With Access Code" -> Str("Public")
          [] c = "Date Last Confirmed" -> Str("2022-07-01")
          [] c = "Open Date" -> Str("2021-03-04")
          [] c = "Updated At" -> Str("2022-07-01")
          [] c = "State" -> Str("CA")
          [] c = "Country" -> Str("US")
          [] c = "EV Level2 EVSE Num" -> Num(2)
          [] c = "EV Network" -> Str("Non-Networked")
          [] c = "EV Network Web" -> Str("http://ev.example")
          [] c = "EV Connector Types" -> Str("J1772")
          [] OTHER -> Str("Public - fr")]

DepEnergyPatches ==
    << <<>>,
      \* a station of another fuel, as the file has them: no EV cells
      ("Fuel Type Code" :> Str("LPG")) ++ ("EV Network" :> NaN) ++ ("EV Network Web" :> NaN)
          ++ ("EV Connector Types" :> NaN) ++ ("EV Level2 EVSE Num" :> NaN),
      ("Fuel Type Code" :> Str("GAS")) ++ ("EV Network" :> NaN) ++ ("EV Level2 EVSE Num" :> NaN),
      ("EV Network" :> NaN) ++ ("EV Level2 EVSE Num" :> NaN),
      ("Fuel Type Code" :> NaN) ++ ("EV Network" :> NaN),
      ("Station Phone" :> NaN),
      ("Open Date" :> Str("03/04/2021")),
      ("Open Date" :> NaN) ++ ("Date Last Confirmed" :> NaN),
      ("Date Last Confirmed" :> Str("03/04/2021")),
      ("Updated At" :> Str("TBD")),
      ("State" :> Str("ON")),
      ("Groups With Access Code" :> NaN),
      ("ID" :> Num(1)) >>

\* ---- EPA: vehicles.csv
EpaColumns ==
    <<"barrels08", "charge120", "cylinders", "displ", "drive", "id", "range",
      "rangeCity", "rangeHwy", "trany", "year", "createdOn", "modifiedOn">>

EpaRow ==
    [c \in Range(EpaColumns) |->
        CASE c = "barrels08" -> Num(15)
          [] c = "cylinders" -> Num(4)
          [] c = "displ" -> Num(2)
          [] c = "drive" -> Str("Front-Wheel Drive")
          [] c = "trany" -> Str("Manual 5-spd")
          [] c = "year" -> Num(1995)
          [] c \in {"createdOn", "modifiedOn"} -> Str("Tue Jan 01 00:00:00 EST 2013")
          [] OTHER -> Num(0)]

EpaPatches ==
    << <<>>,
      ("drive" :> NaN),
      ("displ" :> Num(40)),
      ("barrels08" :> Num(90)),
      \* an electric vehicle: no engine
      ("cylinders" :> NaN) ++ ("displ" :> NaN),
      ("barrels08" :> NaN) ++ ("cylinders" :> NaN) ++ ("displ" :> NaN),
      ("trany" :> NaN),
      ("createdOn" :> Str("TBD")),
      ("id" :> Num(1)) >>

DepEnergyTables ==
    {ReadCsv(DepEnergyColumns, CellRows(DepEnergyRow, "ID", n, ps)) :
        n \in FillCounts, ps \in PatchSeqs(DepEnergyPatches, MaxSpecial)}

EpaTables ==
    {ReadCsv(EpaColumns, CellRows(EpaRow, "id", n, ps)) :
        n \in FillCounts, ps \in PatchSeqs(EpaPatches, MaxSpecial)}

\* The paths process_data is called with; the file of a path holds a table
\* of the schema its directory names (or, in an unknown directory, either).
Paths ==
    { <<"datasets", "dep_energy", "alt_fuel_stations.csv">>,
      <<"datasets", "epa", "vehicles.csv">>,
      <<"datasets", "nhtsa", "complaints.csv">> }

FilesAt(path) ==
    IF path[2] = "dep_energy" THEN DepEnergyTables
    ELSE IF path[2] = "epa" THEN EpaTables
    ELSE {t \in DepEnergyTables \cup EpaTables : Len(t.rows) <= 3}

(***************************************************************************)
(* data_processing.process_data                                            *)
(***************************************************************************)
\* Mutant of KnownSources: the check lets another directory through.
KnownSourcesAndNhtsa == {"dep_energy", "epa", "nhtsa"}

\* The list of line 184.
KnownSources == {"dep_energy", "epa"}

\* dataset_path.split('/')[-2]
SourceOf(path) == path[Len(path) - 1]

\* A step's outcome moves the call on, or ends it.
Advance(r, next) ==
    /\ df' = r.df
    /\ prev' = df
    /\ exc' = r.exc
    /\ pc' = IF r.exc # "" \/ r.none THEN "done" ELSE next
    /\ ret' = IF r.exc # "" THEN "raise"
              ELSE IF r.none THEN "None"
              ELSE IF next = "done" THEN "df" ELSE "pending"
    /\ UNCHANGED <<call, dataset_path, source, input, now, stdout>>

\* Lines 179-186: load, derive the source, reject an unknown one.
ProcessDataEntry ==
    /\ call = "process_data" /\ pc = "entry"
    /\ source' = SourceOf(dataset_path)
    /\ df' = input
    /\ prev' = input
    /\ IF SourceOf(dataset_path) \notin KnownSources
       THEN /\ stdout' = Append(stdout, "Unknown source")
            /\ pc' = "done" /\ ret' = "df"
       ELSE /\ stdout' = stdout
            /\ pc' = "remove_duplicates" /\ ret' = "pending"
    /\ UNCHANGED <<call, dataset_path, input, now, exc>>

RemoveDuplicatesStep ==
    /\ call = "process_data" /\ pc = "remove_duplicates"
    /\ Advance(Ok(remove_duplicates(df)), "deal_with_missing_data")

DealWithMissingDataStep ==
    /\ call = "process_data" /\ pc = "deal_with_missing_data"
    /\ Advance(deal_with_missing_data(df, source), "fix_data_types")

FixDataTypesStep ==
    /\ call = "process_data" /\ pc = "fix_data_types"
    /\ Advance(fix_data_types(df, source), "remove_unnecessary_columns")

RemoveUnnecessaryColumnsStep ==
    /\ call = "process_data" /\ pc = "remove_unnecessary_columns"
    /\ Advance(remove_unnecessary_columns(df, source),
               IF source = "dep_energy" THEN "fix_typos" ELSE "remove_outliers")

FixTyposStep ==
    /\ call = "process_data" /\ pc = "fix_typos"
    /\ Advance(fix_typos(df), "done")

RemoveOutliersStep ==
    /\ call = "process_data" /\ pc = "remove_outliers"
    /\ \E normal \in (IF FloatColumns(df) = <<>> \/ df.rows = <<>> THEN {FALSE}
                      ELSE KsVerdicts(df, Head(FloatColumns(df)))) :
          Advance(remove_outliers(df, normal), "done")

InitClean ==
    /\ call = "process_data"
    /\ dataset_path \in Paths
    /\ input \in FilesAt(dataset_path)
    /\ source = ""
    /\ now = 0
    /\ df = input
    /\ prev = input
    /\ pc = "entry"
    /\ ret = "pending"
    /\ exc = ""
    /\ stdout = <<>>

NextClean ==
    \/ ProcessDataEntry
    \/ RemoveDuplicatesStep
    \/ DealWithMissingDataStep
    \/ FixDataTypesStep
    \/ RemoveUnnecessaryColumnsStep
    \/ FixTyposStep
    \/ RemoveOutliersStep

SpecClean == InitClean /\ [][NextClean]_vars

(***************************************************************************)
(* Properties of the cleaner                                               *)
(***************************************************************************)
Cleaned == call = "process_data" /\ pc = "done" /\ ret = "df" /\ source \in KnownSources

AfterMissingDataStep == call = "process_data" /\ pc = "fix_data_types"

RowAt(t, label) == CHOOSE r \in Range(t.rows) : r.idx = label

Labels(t) == {t.rows[i].idx : i \in DOMAIN t.rows}

\* C1: after cleaning a table of a recognized source, no retained column
\* holds a missing cell.
C1_NoMissingAfterCleaning ==
    Cleaned => \A c \in ColSet(df) : NMissing(df, c) = 0

EvCellsMissing(r) == IsNa(r.c["EV Network"]) /\ IsNa(r.c["EV Level2 EVSE Num"])

\* The missing percentage of col in t lies in [2%, 50%).
InBand(t, col) ==
    /\ 100 * NMissing(t, col) >= DropRowPerc * Len(t.rows)
    /\ 100 * NMissing(t, col) < DropColumnPerc * Len(t.rows)

\* t with the fuel type of the row labelled label replaced.
WithFuel(t, label, fuel) ==
    SetWhere(t, "Fuel Type Code", LAMBDA r : r.idx = label, Str(fuel))

Imputed(t, label) ==
    /\ label \in Labels(t)
    /\ RowAt(t, label).c["EV Network"] = Str("Not Applicable")
    /\ RowAt(t, label).c["EV Level2 EVSE Num"] = Num(0)

C9_EveryFloatColumnFiltered ==
    (Cleaned /\ source = "epa") =>
        \A c \in Range(FloatColumns(prev)) :
            \E normal \in KsVerdicts(prev, c) :
                \A i \in DOMAIN df.rows : ~OutlierFlag(prev, c, normal, df.rows[i])

\* C10: for every EPA table on which no step raises, remove_outliers (and so
\* process_data) returns a table with the columns it was given and a subset
\* of its rows, never None.
C10_NeverReturnsNone ==
    (call = "process_data" /\ pc = "done" /\ source = "epa" /\ exc = "") =>
        /\ ret = "df"
        /\ df.cols = prev.cols
        /\ Range(df.rows) \subseteq Range(prev.rows)

(***************************************************************************)
(* data_transformation: the configuration                                  *)
(***************************************************************************)
num_features_to_keep(src) ==
    IF src = "dep_energy" THEN <<"EV Level2 EVSE Num", "Latitude", "Longitude">>
    ELSE <<"barrels08", "barrelsA08", "charge240", "city08", "city08U", "cityA08",
           "cityA08U", "cityCD", "cityE", "cityUF", "co2", "co2A",
           "co2TailpipeAGpm", "co2TailpipeGpm", "comb08", "comb08U", "combA08",
           "combA08U", "combE", "combinedCD", "combinedUF", "cylinders", "displ",
           "engId", "feScore", "fuelCost08", "fuelCostA08", "ghgScore",
           "ghgScoreA", "highway08", "highway08U", "highwayA08", "highwayA08U",
           "highwayCD", "highwayE", "highwayUF", "hlv", "hpv", "id", "lv2", "lv4",
           "pv2", "pv4", "rangeCityA", "rangeHwyA", "UCity", "UCityA", "UHighway",
           "UHighwayA", "year", "youSaveSpend", "charge240b", "phevCity",
           "phevHwy", "phevComb">>

date_features_to_keep(src) ==
    IF src = "dep_energy" THEN <<"Open Date">> ELSE <<"createdOn", "modifiedOn">>

cat_features_to_keep(src) ==
    IF src = "dep_energy"
    THEN <<"Fuel Type Code", "Country", "State", "Geocode Status", "Status Code",
           "Access Code", "EV Network">>
    ELSE <<"drive", "fuelType1", "make", "mpgData", "trany", "VClass", "phevBlended">>

tag_features_to_keep(src) ==
    IF src = "dep_energy" THEN <<"EV Connector Types">> ELSE <<"fuelType">>

\* The keys of features_to_keep_per_source.
ConfiguredSources == {"dep_energy", "epa"}

\* [item for sublist in feats_dict.values() for item in sublist]
features_to_keep(src) ==
    num_features_to_keep(src) \o date_features_to_keep(src)
        \o cat_features_to_keep(src) \o tag_features_to_keep(src)

\* df.loc[:, features_to_keep]: the listed columns, in the listed order.
SelectFeatures(t, feats) ==
    IF ~HasCols(t, Range(feats)) THEN Raise("KeyError", t)
    ELSE Ok([DropCols(t, ColSet(t) \ Range(feats)) EXCEPT !.cols = feats])

(***************************************************************************)
(* data_transformation.process_num_features                                *)
(***************************************************************************)
\* (x - mean) / std of a column with values v, kept exact as the triple
\* (n*x - sum, n*sum(x^2) - sum^2, n): it stands for
\* ((n*x - sum) / n) / sqrt((n*sum(x^2) - sum^2) / (n*(n-1))).
Z(x, v) == <<"z", Len(v) * x - SeqSum(v), ScaledVar(v), Len(v)>>

\* df[feat].std() == 0 (False when std is NaN).
StdIsZero(t, feat) == StdDefined(Values(t, feat)) /\ ScaledVar(Values(t, feat)) = 0

\* df[feats] = (df[feats] - df[feats].mean()) / df[feats].std()
Normalise(t, feats) ==
    [t EXCEPT
        !.dtype = [c \in ColSet(t) |-> IF c \in Range(feats) THEN "float64" ELSE t.dtype[c]],
        !.rows = [i \in DOMAIN t.rows |->
            [t.rows[i] EXCEPT !.c = [c \in ColSet(t) |->
                IF c \notin Range(feats) THEN t.rows[i].c[c]
                ELSE IF IsNum(t.rows[i].c[c]) /\ StdDefined(Values(t, c))
                     THEN Z(t.rows[i].c[c][2], Values(t, c))
                ELSE NaN]]]]

\* Lines 73-75.  Line 74 rebinds num_feats to the features whose std is not
\* 0, and line 75 looks for the features with std 0 in that rebound list.
process_num_features(t, num_feats) ==
    LET anyZero == \E f \in Range(num_feats) : StdIsZero(t, f)
        kept    == IF anyZero THEN SelectSeq(num_feats, LAMBDA f : ~StdIsZero(t, f))
                   ELSE num_feats
        todrop  == IF anyZero THEN SelectSeq(kept, LAMBDA f : StdIsZero(t, f)) ELSE <<>>
    IN  Ok(Normalise(DropCols(t, Range(todrop)), kept))

(***************************************************************************)
(* data_transformation.process_date_features                               *)
(***************************************************************************)
\* (current_timestamp - df[col]).dt.days; a column that holds texts instead
\* of dates cannot be subtracted from a timestamp.
RECURSIVE process_date_features(_, _, _)
process_date_features(t, date_feats, today) ==
    IF date_feats = <<>> THEN Ok(t)
    ELSE LET col == Head(date_feats)
         IN  IF \E i \in DOMAIN t.rows : t.rows[i].c[col][1] \notin {"date", "nan"}
             THEN Raise("TypeError", t)
             ELSE process_date_features(
                      [t EXCEPT !.dtype[col] = "float64",
                                !.rows = [i \in DOMAIN t.rows |->
                                    [t.rows[i] EXCEPT !.c[col] =
                                        IF IsNa(@) THEN NaN ELSE Num(today - @[2])]]],
                      Tail(date_feats), today)

(***************************************************************************)
(* data_transformation.process_cat_features                                *)
(***************************************************************************)
\* The level labels of the model in Python's string order, which is the
\* order pd.get_dummies gives the categories.
LevelOrder ==
    <<"2-Wheel Drive", "200-9", "4-Wheel Drive", "4-Wheel or All-Wheel Drive",
      "All-Wheel Drive", "Automatic 4-spd", "CA", "CNG", "Compact Cars", "E",
      "ELEC", "Electricity", "False", "Ford", "Front-Wheel Drive", "GPS", "LPG",
      "Manual 5-spd", "N", "NY", "Non-Networked", "Not Applicable", "ON", "P",
      "Pickup Trucks", "Premium Gasoline", "Rear-Wheel Drive", "Regular Gasoline",
      "TX", "Tesla", "Toyota", "True", "US", "Y", "private", "public">>

\* The levels present in a column (missing cells are no level), sorted.
SortedLevels(t, col) ==
    SelectSeq(LevelOrder, LAMBDA l : \E i \in DOMAIN t.rows : t.rows[i].c[col] = Str(l))

\* len(df[col].unique()): NaN counts as one more value.
NLevels(t, col) == Cardinality({t.rows[i].c[col] : i \in DOMAIN t.rows})

Count(t, col, cell) == Cardinality({i \in DOMAIN t.rows : t.rows[i].c[col] = cell})

FirstSeen(t, col, cell) ==
    CHOOSE i \in DOMAIN t.rows :
        t.rows[i].c[col] = cell /\ \A j \in 1 .. i - 1 : t.rows[j].c[col] # cell

\* df[col].value_counts().index[-1]: the levels by decreasing count, equal
\* counts in order of first appearance; the last one.
SmallestLevel(t, col) ==
    LET present == {t.rows[i].c[col] : i \in DOMAIN t.rows} \ {NaN}
    IN  CHOOSE l \in present : \A m \in present \ {l} :
            \/ Count(t, col, m) > Count(t, col, l)
            \/ Count(t, col, m) = Count(t, col, l)
               /\ FirstSeen(t, col, m) < FirstSeen(t, col, l)

\* (df[col] == smallest_level).astype(int)
BinaryEncode(t, col) ==
    LET smallest == SmallestLevel(t, col)
    IN  [t EXCEPT !.dtype[col] = "int64",
                  !.rows = [i \in DOMAIN t.rows |->
                      [t.rows[i] EXCEPT !.c[col] = IF @ = smallest THEN Num(1) ELSE Num(0)]]]

\* prefix + '_' + level
Dummy(col, level) == col \o "_" \o level

\* t with the columns of newcols appended, each cell given by cell(row, column).
AppendCols(t, newcols, cell(_, _)) ==
    [cols  |-> t.cols \o newcols,
     dtype |-> [c \in ColSet(t) \cup Range(newcols) |->
                  IF c \in Range(newcols) THEN "int64" ELSE t.dtype[c]],
     rows  |-> [i \in DOMAIN t.rows |->
                  [idx |-> t.rows[i].idx,
                   c   |-> [c \in ColSet(t) \cup Range(newcols) |->
                              IF c \in Range(newcols) THEN cell(t.rows[i], c)
                              ELSE t.rows[i].c[c]]]]]

\* Mutant of OneHotEncode: drop_first is left out.
OneHotEncodeAllLevels(t, col) ==
    LET levels == SortedLevels(t, col)
        names  == [i \in DOMAIN levels |-> Dummy(col, levels[i])]
        added  == AppendCols(t, names,
                      LAMBDA r, c : IF r.c[col][1] = "str" /\ c = Dummy(col, r.c[col][2])
                                    THEN Num(1) ELSE Num(0))
    IN  DropCols(added, {col})

\* pd.concat([df.drop(col, axis=1),
\*            pd.get_dummies(df[col], drop_first=True, prefix=col)], axis=1)
OneHotEncode(t, col) ==
    LET levels == SortedLevels(t, col)
        kept   == IF levels = <<>> THEN <<>> ELSE Tail(levels)
        names  == [i \in DOMAIN kept |-> Dummy(col, kept[i])]
        added  == AppendCols(t, names,
                      LAMBDA r, c : IF r.c[col][1] = "str" /\ c = Dummy(col, r.c[col][2])
                                    THEN Num(1) ELSE Num(0))
    IN  DropCols(added, {col})

DriveMerged == "drive_4-Wheel or All-Wheel Drive"
DriveTargets == <<"drive_4-Wheel Drive", "drive_All-Wheel Drive">>

\* df[target] = df[target] + df[merged]
AddColumn(t, target, merged) ==
    [t EXCEPT !.rows = [i \in DOMAIN t.rows |->
        [t.rows[i] EXCEPT !.c[target] = Num(@[2] + t.rows[i].c[merged][2])]]]

\* Lines 124-127.
FixDrive(t) ==
    IF ~HasCols(t, {DriveTargets[1], DriveMerged}) THEN Raise("KeyError", t)
    ELSE LET t1 == AddColumn(t, DriveTargets[1], DriveMerged)
         IN  IF ~HasCols(t1, {DriveTargets[2]}) THEN Raise("KeyError", t1)
             ELSE Ok(DropCols(AddColumn(t1, DriveTargets[2], DriveMerged), {DriveMerged}))

EncodeCategory(t, col) ==
    IF NLevels(t, col) = 2 THEN BinaryEncode(t, col) ELSE OneHotEncode(t, col)

RECURSIVE process_cat_features(_, _)
process_cat_features(t, cat_feats) ==
    IF cat_feats = <<>> THEN Ok(t)
    ELSE LET col     == Head(cat_feats)
             encoded == EncodeCategory(t, col)
             fixed   == IF col = "drive" THEN FixDrive(encoded) ELSE Ok(encoded)
         IN  IF fixed.exc # "" THEN fixed
             ELSE process_cat_features(fixed.df, Tail(cat_feats))

(***************************************************************************)
(* data_transformation.process_tag_features                                *)
(***************************************************************************)
\* Series.str.split(' ') on the connector texts of the model.
SplitSpace(text) ==
    CASE text = "J1772" -> <<"J1772">>
      [] text = "TESLA" -> <<"TESLA">>
      [] text = "J1772 CHADEMO" -> <<"J1772", "CHADEMO">>
      [] text = "Not Applicable" -> <<"Not", "Applicable">>

\* Series.str.split(' (and|or) ', regex=True) on the fuel texts of the model:
\* re.split returns the text of the capturing group between the pieces.
SplitConjunction(text) ==
    CASE text = "Regular" -> <<"Regular">>
      [] text = "Premium" -> <<"Premium">>
      [] text = "Electricity" -> <<"Electricity">>
      [] text = "Gasoline or E85" -> <<"Gasoline", "or", "E85">>
      [] text = "Premium and Electricity" -> <<"Premium", "and", "Electricity">>
      [] text = "Regular Gas and Electricity" -> <<"Regular Gas", "and", "Electricity">>

\* Mutant of DropConjunctions: the captured separators stay in the list.
KeepConjunctions(items) == items

\* [item for item in x if item != 'or' and item != 'and']
DropConjunctions(items) == SelectSeq(items, LAMBDA item : item # "or" /\ item # "and")

\* The rows list_tags_per_entry holds an entry for.
TagEntries(t, tag_feat) ==
    IF tag_feat = "EV Connector Types"
    THEN SelectSeq(t.rows, LAMBDA r : r.c[tag_feat] # Str("Not Applicable"))
    ELSE t.rows

\* The entry of one row: its list of tags.
TagList(tag_feat, cell) ==
    IF tag_feat = "EV Connector Types" THEN SplitSpace(cell[2])
    ELSE DropConjunctions(SplitConjunction(cell[2]))

\* set(item for sublist in list_tags_per_entry.to_list() for item in sublist)
UniqueTags(t, tag_feat) ==
    UNION {Range(TagList(tag_feat, r.c[tag_feat])) : r \in Range(TagEntries(t, tag_feat))}

\* Every item a split of the model's texts yields.  A Python set has no specified iteration order, so
\* the program does not determine the order of the columns it adds; the
\* model adds them in this order.
TagOrder ==
    <<"Applicable", "CHADEMO", "E85", "Electricity", "Gasoline", "J1772", "Not",
      "Premium", "Regular", "Regular Gas", "TESLA", "and", "or">>

\* Lines 150-162 for one tag feature whose entries are all texts.
AddTagColumns(t, tag_feat) ==
    LET unique  == UniqueTags(t, tag_feat)
        names   == SelectSeq(TagOrder, LAMBDA tag : tag \in unique)
        entries == {r.idx : r \in Range(TagEntries(t, tag_feat))}
        rest    == DropCols(t, {tag_feat})
    IN  IF unique = {} \/ unique \cap ColSet(rest) # {} THEN Raise("ValueError", t)
        ELSE Ok(DropCols(
                 AppendCols(t, names,
                     LAMBDA r, tag : IF r.idx \in entries
                                        /\ tag \in Range(TagList(tag_feat, r.c[tag_feat]))
                                     THEN Num(1) ELSE Num(0)),
                 {tag_feat}))

RECURSIVE process_tag_features(_, _)
process_tag_features(t, tag_feats) ==
    IF tag_feats = <<>> THEN Ok(t)
    ELSE LET tag_feat == Head(tag_feats)
         IN  IF tag_feat \notin {"EV Connector Types", "fuelType"}
             THEN Raise("UnboundLocalError", t)
             ELSE IF \E r \in Range(TagEntries(t, tag_feat)) : IsNa(r.c[tag_feat])
             THEN Raise("TypeError", t)
             ELSE LET added == AddTagColumns(t, tag_feat)
                  IN  IF added.exc # "" THEN added
                      ELSE process_tag_features(added.df, Tail(tag_feats))

(***************************************************************************)
(* Input tables of the transformer                                         *)
(***************************************************************************)
MaxRows == 4

\* A frame as the cleaner leaves it: parsed dates, labels 0, 1, 2, ...
Frame(cols, cellrows) ==
    LET t == ReadCsv(cols, cellrows)
    IN  [t EXCEPT !.dtype = [c \in Range(cols) |->
            IF \E i \in DOMAIN cellrows : cellrows[i][c][1] = "date"
            THEN "datetime64" ELSE t.dtype[c]]]

CleanDepEnergyColumns == <<"ID", "Station Phone">> \o features_to_keep("dep_energy")

CleanDepEnergyRow ==
    [c \in Range(CleanDepEnergyColumns) |->
        CASE c = "ID" -> Num(0)
          [] c = "EV Level2 EVSE Num" -> Num(2)
          [] c = "Latitude" -> Num(34)
          [] c = "Longitude" -> Num(-118)
          [] c = "Open Date" -> Date(18690)
          [] c = "Fuel Type Code" -> Str("ELEC")
          [] c = "Country" -> Str("US")
          [] c = "State" -> Str("CA")
          [] c = "Geocode Status" -> Str("GPS")
          [] c = "Status Code" -> Str("E")
          [] c = "Access Code" -> Str("public")
          [] c = "EV Network" -> Str("Non-Networked")
          [] c = "EV Connector Types" -> Str("J1772")
          [] OTHER -> Str("555-0100")]

CleanDepEnergyPatches ==
    << <<>>,
       ("Fuel Type Code" :> Str("LPG")) ++ ("EV Network" :> Str("Not Applicable"))
           ++ ("EV Connector Types" :> Str("Not Applicable"))
           ++ ("EV Level2 EVSE Num" :> Num(0)) ++ ("State" :> Str("TX")),
       ("Fuel Type Code" :> Str("CNG")) ++ ("EV Network" :> Str("Not Applicable"))
           ++ ("EV Connector Types" :> Str("Not Applicable"))
           ++ ("EV Level2 EVSE Num" :> Num(0)) ++ ("State" :> Str("ON"))
           ++ ("Country" :> Str("CA")) ++ ("Access Code" :> Str("private")),
       ("EV Connector Types" :> Str("J1772 CHADEMO")) ++ ("EV Network" :> Str("Tesla"))
           ++ ("Latitude" :> Num(40)) ++ ("State" :> Str("NY"))
           ++ ("Geocode Status" :> Str("200-9")),
       ("EV Connector Types" :> Str("TESLA")) ++ ("Status Code" :> Str("P"))
           ++ ("State" :> NaN) >>

CleanEpaColumns == <<"model">> \o features_to_keep("epa")

CleanEpaRow ==
    [c \in Range(CleanEpaColumns) |->
        CASE c = "drive" -> Str("Front-Wheel Drive")
          [] c = "fuelType1" -> Str("Regular Gasoline")
          [] c = "make" -> Str("Toyota")
          [] c = "mpgData" -> Str("N")
          [] c = "trany" -> Str("Automatic 4-spd")
          [] c = "VClass" -> Str("Compact Cars")
          [] c = "phevBlended" -> Str("False")
          [] c = "fuelType" -> Str("Regular")
          [] c = "model" -> Str("Corolla")
          [] c \in {"createdOn", "modifiedOn"} -> Date(15706)
          [] c = "year" -> Num(1995)
          [] OTHER -> Num(1)]

CleanEpaPatches ==
    << <<>>,
       ("drive" :> Str("2-Wheel Drive")) ++ ("year" :> Num(1984))
           ++ ("fuelType" :> Str("Regular Gas and Electricity")),
       ("drive" :> Str("4-Wheel Drive")) ++ ("make" :> Str("Ford"))
           ++ ("mpgData" :> Str("Y")) ++ ("fuelType" :> Str("Gasoline or E85")),
       ("drive" :> Str("4-Wheel or All-Wheel Drive")) ++ ("displ" :> Num(3))
           ++ ("fuelType1" :> Str("Premium Gasoline")) ++ ("fuelType" :> Str("Premium")),
       ("drive" :> Str("All-Wheel Drive")) ++ ("VClass" :> Str("Pickup Trucks"))
           ++ ("phevBlended" :> Str("True"))
           ++ ("fuelType" :> Str("Premium and Electricity")),
       ("drive" :> Str("Rear-Wheel Drive")) ++ ("cylinders" :> NaN) ++ ("displ" :> NaN)
           ++ ("trany" :> NaN)
           ++ ("fuelType1" :> Str("Electricity")) ++ ("fuelType" :> Str("Electricity")) >>

CleanDepEnergyTables ==
    {Frame(CleanDepEnergyColumns, CellRows(CleanDepEnergyRow, "ID", 0, ps)) :
        ps \in PatchSeqs(CleanDepEnergyPatches, MaxRows)}

CleanEpaTables ==
    {Frame(CleanEpaColumns, CellRows(CleanEpaRow, "id", 0, ps)) :
        ps \in PatchSeqs(CleanEpaPatches, MaxRows)}

\* The source identifiers transform_data is called with.
Sources == {"dep_energy", "epa", "nhtsa"}

FramesOf(src) ==
    IF src = "dep_energy" THEN CleanDepEnergyTables
    ELSE IF src = "epa" THEN CleanEpaTables
    ELSE {t \in CleanDepEnergyTables \cup CleanEpaTables : Len(t.rows) <= 2}

(***************************************************************************)
(* data_transformation.transform_data                                      *)
(***************************************************************************)
\* Lines 172-181: reject an unknown source, select the configured features.
TransformDataEntry ==
    /\ call = "transform_data" /\ pc = "entry"
    /\ IF source \notin ConfiguredSources
       THEN /\ stdout' = Append(stdout, "Unknown source")
            /\ df' = df /\ prev' = df
            /\ pc' = "done" /\ ret' = "df" /\ exc' = exc
            /\ UNCHANGED <<call, dataset_path, source, input, now>>
       ELSE /\ stdout' = stdout
            /\ Advance(SelectFeatures(df, features_to_keep(source)), "process_num_features")

ProcessNumFeaturesStep ==
    /\ call = "transform_data" /\ pc = "process_num_features"
    /\ Advance(process_num_features(df, num_features_to_keep(source)),
               "process_date_features")

ProcessDateFeaturesStep ==
    /\ call = "transform_data" /\ pc = "process_date_features"
    /\ Advance(process_date_features(df, date_features_to_keep(source), now),
               "process_cat_features")

ProcessCatFeaturesStep ==
    /\ call = "transform_data" /\ pc = "process_cat_features"
    /\ Advance(process_cat_features(df, cat_features_to_keep(source)),
               "process_tag_features")

ProcessTagFeaturesStep ==
    /\ call = "transform_data" /\ pc = "process_tag_features"
    /\ Advance(process_tag_features(df, tag_features_to_keep(source)), "done")

InitTransform ==
    /\ call = "transform_data"
    /\ dataset_path = <<>>
    /\ source \in Sources
    /\ input \in FramesOf(source)
    /\ now \in {19300}
    /\ df = input
    /\ prev = input
    /\ pc = "entry"
    /\ ret = "pending"
    /\ exc = ""
    /\ stdout = <<>>

NextTransform ==
    \/ TransformDataEntry
    \/ ProcessNumFeaturesStep
    \/ ProcessDateFeaturesStep
    \/ ProcessCatFeaturesStep
    \/ ProcessTagFeaturesStep

SpecTransform == InitTransform /\ [][NextTransform]_vars

\* Either entry point, called once.
Init == InitClean \/ InitTransform

Next == NextClean \/ NextTransform

Spec == Init /\ [][Next]_vars

(***************************************************************************)
(* Properties of the transformer                                           *)
(***************************************************************************)
AfterNumStep == call = "transform_data" /\ pc = "process_date_features"

AfterCatStep == call = "transform_data" /\ pc = "process_tag_features"

Transformed == call = "transform_data" /\ pc = "done" /\ ret = "df"
                   /\ source \in {"dep_energy", "epa"}

\* C2: after the numeric step, every configured numeric column with the same
\* value in all rows is absent, and every other one is present and
\* standardized.
C2_ZeroVarianceColumnsDropped ==
    AfterNumStep =>
        \A f \in Range(num_features_to_keep(source)) :
            IF Len(prev.rows) >= 2
               /\ \A i, j \in DOMAIN prev.rows : prev.rows[i].c[f] = prev.rows[j].c[f]
            THEN f \notin ColSet(df)
            ELSE /\ f \in ColSet(df)
                 /\ \A i \in DOMAIN df.rows : df.rows[i].c[f][1] \in {"z", "nan"}

\* The distinct non-missing levels of a categorical column.
LevelsOf(t, col) == {t.rows[i].c[col] : i \in DOMAIN t.rows} \ {NaN}

\* The first level in the canonical (sorted) order.
FirstLevel(t, col) ==
    CHOOSE l \in LevelsOf(t, col) :
        \A m \in LevelsOf(t, col) :
            \E i, j \in DOMAIN LevelOrder :
                LevelOrder[i] = l[2] /\ LevelOrder[j] = m[2] /\ i <= j

\* The indicator columns of col in t.
Indicators(t, col) == ColSet(t) \cap {Dummy(col, l) : l \in Range(LevelOrder)}

Ones(t, i, columns) == {c \in columns : t.rows[i].c[c] = Num(1)}

\* C3 as stated: every configured categorical column with k > 2 levels,
\* 'drive' included, gets exactly k-1 indicators, and each row has exactly
\* one indicator at 1, or none if its level is the dropped first level.
C3_OneHotEveryColumn ==
    (AfterCatStep /\ \A c \in Range(cat_features_to_keep(source)) : NMissing(input, c) = 0) =>
        \A c \in Range(cat_features_to_keep(source)) :
            Cardinality(LevelsOf(input, c)) > 2 =>
                /\ Cardinality(Indicators(df, c)) = Cardinality(LevelsOf(input, c)) - 1
                /\ \A i \in DOMAIN df.rows :
                      Cardinality(Ones(df, i, Indicators(df, c))) =
                          IF input.rows[i].c[c] = FirstLevel(input, c) THEN 0 ELSE 1

\* C3 (amended): every configured categorical column other than 'drive' with
\* k > 2 distinct non-missing levels is replaced by exactly k-1 indicators,
\* one per level except the first level in sorted order; a row whose level
\* is not that first level has its own level's indicator at 1 and the others
\* at 0; a row with the first level or with a missing cell has all at 0.
C3_OneHotExceptDrive ==
    AfterCatStep =>
        \A c \in Range(cat_features_to_keep(source)) \ {"drive"} :
            Cardinality(LevelsOf(input, c)) > 2 =>
                /\ c \notin ColSet(df)
                /\ Indicators(df, c) =
                       {Dummy(c, l[2]) : l \in LevelsOf(input, c) \ {FirstLevel(input, c)}}
                /\ Cardinality(Indicators(df, c)) = Cardinality(LevelsOf(input, c)) - 1
                /\ \A i \in DOMAIN df.rows :
                      LET cell == input.rows[i].c[c]
                      IN  Ones(df, i, Indicators(df, c)) =
                              IF IsNa(cell) \/ cell = FirstLevel(input, c) THEN {}
                              ELSE {Dummy(c, cell[2])}

\* C3 witness: the step encoded a column other than 'drive' with more than
\* two levels that has a row with the first level, a row with another level
\* and a row with a missing cell.
C3_Witness ==
    /\ AfterCatStep
    /\ \E c \in Range(cat_features_to_keep(source)) \ {"drive"} :
          /\ Cardinality(LevelsOf(input, c)) > 2
          /\ \E i, j, k \in DOMAIN input.rows :
                /\ input.rows[i].c[c] = FirstLevel(input, c)
                /\ input.rows[j].c[c] \notin {FirstLevel(input, c), NaN}
                /\ IsNa(input.rows[k].c[c])
                /\ Ones(df, j, Indicators(df, c)) # {}

HasCombinedDrive(t) ==
    \E i \in DOMAIN t.rows : t.rows[i].c["drive"] = Str("4-Wheel or All-Wheel Drive")

\* C5: transforming an EPA table with a '4-Wheel or All-Wheel Drive' row
\* completes without error whatever the other drive levels are; that row has
\* 'drive_4-Wheel Drive' = 1 and 'drive_All-Wheel Drive' = 1, and there is no
\* 'drive_4-Wheel or All-Wheel Drive' column.
C5_CombinedDriveMerged ==
    (call = "transform_data" /\ source = "epa" /\ pc = "done" /\ HasCombinedDrive(input)) =>
        /\ ret = "df" /\ exc = ""
        /\ DriveMerged \notin ColSet(df)
        /\ Range(DriveTargets) \subseteq ColSet(df)
        /\ \A i \in DOMAIN input.rows :
              input.rows[i].c["drive"] = Str("4-Wheel or All-Wheel Drive") =>
                  \A c \in Range(DriveTargets) : df.rows[i].c[c] = Num(1)

\* What the texts of a tag column mean: the tags a cell is tagged with.
TagsOf(text) ==
    CASE text = "J1772" -> {"J1772"}
      [] text = "TESLA" -> {"TESLA"}
      [] text = "J1772 CHADEMO" -> {"J1772", "CHADEMO"}
      [] text = "Regular" -> {"Regular"}
      [] text = "Premium" -> {"Premium"}
      [] text = "Electricity" -> {"Electricity"}
      [] text = "Gasoline or E85" -> {"Gasoline", "E85"}
      [] text = "Premium and Electricity" -> {"Premium", "Electricity"}
      [] text = "Regular Gas and Electricity" -> {"Regular Gas", "Electricity"}
      [] OTHER -> {}

ObservedTags(t, feat) == UNION {TagsOf(t.rows[i].c[feat][2]) : i \in DOMAIN t.rows}

NeverTags == {"and", "or", "Not Applicable", "Not", "Applicable"}

UnknownSource ==
    IF call = "process_data" THEN SourceOf(dataset_path) \notin {"dep_energy", "epa"}
    ELSE source \notin {"dep_energy", "epa"}

\* C8: with a source other than dep_energy and epa, process_data and
\* transform_data run no step, print 'Unknown source' and return the table
\* they were given unchanged.
C8_UnknownSourceReturnsInput ==
    UnknownSource =>
        /\ pc \in {"entry", "done"}
        /\ pc = "done" =>
              /\ ret = "df" /\ exc = ""
              /\ df = input
              /\ stdout = <<"Unknown source">>

\* C8 witness: process_data returned a non-empty table of an unknown source.
C8_Witness ==
    /\ call = "process_data" /\ UnknownSource /\ pc = "done"
    /\ input.rows # <<>>
    /\ stdout = <<"Unknown source">>

====
